---- MODULE Spec2Model ----
(***************************************************************************)
(* SecureCoda backend (src/unnamed/part_001): the in-memory alert store,   *)
(* the security scan over documents / tables / rows, the remediation and   *)
(* status endpoints and the start-up sequence, as a state machine.         *)
(*                                                                         *)
(* Node runs one handler at a time; a handler gives up control only at an  *)
(* `await` of an external (Coda) call.  Every action below is therefore    *)
(* the code between two awaits, taken atomically.                          *)
(***************************************************************************)
EXTENDS Integers, Sequences, FiniteSets, TLC

(***************************************************************************)
(* Bounds of the model.                                                    *)
(***************************************************************************)
\* scan runs after the start-up scan (scheduled or manual)
MaxScans == 1
\* HTTP requests that address an alert (PATCH status, POST remediate)
MaxRequests == 2
\* clock ticks (1 ms each) after the process started
MaxTicks == 1
\* alerts in the stores the read endpoints are run over
MaxStore == 3
\* scan runs after the start-up scan where runs are let overlap
MaxOverlap == 2

(***************************************************************************)
(* State.                                                                  *)
(***************************************************************************)
VARIABLES
  alerts,          \* let alerts = []
  alertIdCounter,  \* let alertIdCounter = 1
  documents,       \* let documents = []
  useDummyData,    \* USE_DUMMY_DATA
  coda,            \* the documents, tables and rows the Coda API serves
  clock,           \* the wall clock, in ms
  phase,           \* "starting" | "serving" | "crashed": the start-up IIFE
  scan,            \* scan[r]: the locals of run r of runSecurityScan
  scansStarted,    \* scheduled and manual runs started so far
  reqCounter,      \* requests on an alert received so far
  deleteCalls,     \* the deleteRowFromCoda calls awaited, oldest first
  hist,            \* the last run of the scan that was left undisturbed
  \* what the last step did, for the properties to refer to:
  lastScan,        \* the locals of the run that ended in the last step
  failedCall,      \* the external call that failed in the last step
  detected,        \* the dedup keys handed to createAlert in the last step
  response         \* the response sent in the last step

vars == <<alerts, alertIdCounter, documents, useDummyData, coda, clock, phase, scan,
          scansStarted, reqCounter, deleteCalls, hist, lastScan, failedCall,
          detected, response>>

(***************************************************************************)
(* Program constants.                                                      *)
(***************************************************************************)
TEN_MINUTES_MS == 10 * 60 * 1000

ALERT_TYPES ==
  [UNUSED_DOCUMENT |-> "unused_document",
   PUBLIC_DOCUMENT |-> "public_document",
   SENSITIVE_DATA_TABLE |-> "sensitive_data_table"]

ALERT_STATUS ==
  [OPEN |-> "open", ACKNOWLEDGED |-> "acknowledged",
   REMEDIATED |-> "remediated", IGNORED |-> "ignored"]

\* Object.values(ALERT_STATUS)
StatusValues == {ALERT_STATUS[k] : k \in DOMAIN ALERT_STATUS}

\* The detector registry, in registration order (Object.entries order).
SENSITIVE_PATTERNS ==
  << [type |-> "creditCard", name |-> "Credit Card Number", severity |-> "high"],
     [type |-> "email", name |-> "Email Address", severity |-> "medium"],
     [type |-> "phone", name |-> "Phone Number", severity |-> "medium"],
     [type |-> "password", name |-> "Password", severity |-> "critical"],
     [type |-> "apiKey", name |-> "API Key/Token", severity |-> "critical"],
     [type |-> "awsKey", name |-> "AWS Access Key", severity |-> "critical"],
     [type |-> "privateKey", name |-> "Private Key", severity |-> "critical"] >>

(***************************************************************************)
(* The external document source (Coda) the scans run against.  A text is   *)
(* a sequence of segments; a segment is the substring one detector's       *)
(* regular expression matches (type = the detector key) or plain text      *)
(* (type = "plain"), with its characters.                                  *)
(***************************************************************************)
CardText == << [type |-> "creditCard",
                m |-> <<"4","1","1","1"," ","1","1","1","1"," ","1","1","1","1"," ","1","2","3","4">>] >>

NotesText ==
  << [type |-> "plain", m |-> <<"s","e","e"," ">>],
     [type |-> "password", m |-> <<"p","a","s","s","w","o","r","d",":"," ","h","u","n","t","e","r","2">>],
     [type |-> "plain", m |-> <<" ">>],
     [type |-> "email", m |-> <<"a","@","b",".","i","o">>] >>

ContactText ==
  << [type |-> "email", m |-> <<"x","@","y",".","c","o">>],
     [type |-> "plain", m |-> <<",">>],
     [type |-> "email", m |-> <<"y","@","z",".","d","e">>],
     [type |-> "plain", m |-> <<",">>],
     [type |-> "email", m |-> <<"q","@","r",".","u","k">>] >>

Row1 == [id |-> "r1",
         values |-> << [col |-> "card", value |-> CardText],
                       [col |-> "notes", value |-> NotesText] >>]

Row2 == [id |-> "r2", values |-> << [col |-> "contact", value |-> ContactText] >>]

\* the clock (ms) when the process starts
StartClock == TEN_MINUTES_MS + 1

\* A source: per document the object GET /docs lists (doc) and its tables;
\* per table the object GET /docs/:id/tables lists (table; `rows` is row
\* data embedded in it, which only the demo mode reads) and the rows
\* GET /docs/:id/tables/:id/rows lists (rows).
\* d1 is published and fresh and holds one row with three findings; d2 is
\* 1 ms short of the staleness threshold when the process starts.
SmallSource ==
  << [doc |-> [id |-> "d1", name |-> "Payroll", updatedAt |-> StartClock,
               published |-> TRUE, browserLink |-> "https://coda.io/d/d1"],
      tables |-> << [table |-> [id |-> "t1", name |-> "Cards", rows |-> <<Row1>>],
                     rows |-> <<Row1>>] >>],
     [doc |-> [id |-> "d2", name |-> "Roadmap", updatedAt |-> 2,
               published |-> FALSE, browserLink |-> "https://coda.io/d/d2"],
      tables |-> << >>] >>

\* response.data.items of GET /docs
CodaDocs(src) == [i \in 1..Len(src) |-> src[i].doc]

\* response.data.items of GET /docs/:docId/tables
CodaTables(src, docId) ==
  LET d == CHOOSE i \in 1..Len(src) : src[i].doc.id = docId
  IN  [k \in 1..Len(src[d].tables) |-> src[d].tables[k].table]

\* response.data.items of GET /docs/:docId/tables/:tableId/rows
CodaRows(src, docId, tableId) ==
  LET d == CHOOSE i \in 1..Len(src) : src[i].doc.id = docId
      k == CHOOSE j \in 1..Len(src[d].tables) : src[d].tables[j].table.id = tableId
  IN  src[d].tables[k].rows

\* error.message of a failed external call
ErrorMessages == {"timeout of 0ms exceeded", "Request failed with status code 404"}

(***************************************************************************)
(* Pure helpers.                                                           *)
(***************************************************************************)
Min(a, b) == IF a < b THEN a ELSE b
Max(a, b) == IF a > b THEN a ELSE b

\* Array.prototype.slice / String.prototype.slice(start, end)
JsIndex(len, i) == IF i < 0 THEN Max(len + i, 0) ELSE Min(i, len)
JsSlice(s, start, end) ==
  SubSeq(s, JsIndex(Len(s), start) + 1, JsIndex(Len(s), end))
JsSliceFrom(s, start) == JsSlice(s, start, Len(s))

MASK == <<"*", "*", "*", "*">>

\* a redaction that drops the tail of the match
RedactHeadOnly(m) == JsSlice(m, 0, 4) \o MASK

\* m.slice(0, 4) + '****' + m.slice(-2)
Redact(m) == JsSlice(m, 0, 4) \o MASK \o JsSliceFrom(m, -2)

\* text.match(config.pattern): the matched substrings, in text order
\* (<< >> stands for null)
Matches(text, type) ==
  LET Hit(seg) == seg.type = type
      RECURSIVE Ms(_)
      Ms(s) == IF s = << >> THEN << >> ELSE <<Head(s).m>> \o Ms(Tail(s))
  IN  Ms(SelectSeq(text, Hit))

MapRedact(ms) == [i \in 1..Len(ms) |-> Redact(ms[i])]

RECURSIVE ScanFrom(_, _)
ScanFrom(text, i) ==
  IF i > Len(SENSITIVE_PATTERNS) THEN << >>
  ELSE LET config == SENSITIVE_PATTERNS[i]
           matches == Matches(text, config.type)
       IN  (IF matches # << >>
            THEN << [type |-> config.type, name |-> config.name,
                     severity |-> config.severity, count |-> Len(matches),
                     samples |-> MapRedact(JsSlice(matches, 0, 2))] >>
            ELSE << >>) \o ScanFrom(text, i + 1)

scanText(text) == IF text = << >> THEN << >> ELSE ScanFrom(text, 1)

(***************************************************************************)
(* The alert store.  S = [alerts, counter, reads, ticks]: the pair         *)
(* (alerts, alertIdCounter) in the course of a step that began at clock t, *)
(* the number of times the step has read the clock (new Date()) so far,    *)
(* and the reads just before which the clock advances by 1 ms.             *)
(***************************************************************************)
\* new Date() as the n-th clock read of a step that began at t
ReadClock(S, t, n) == t + Cardinality({k \in S.ticks : k <= n})

\* the predicate of alerts.find in createAlert
IsOpenDuplicate(a, alertData) ==
  /\ a.type = alertData.type
  /\ a.docId = alertData.docId
  /\ a.resourceId = alertData.resourceId
  /\ a.status = ALERT_STATUS.OPEN

\* { id: alertIdCounter++, ...alertData, status, createdAt, updatedAt }
NewAlert(id, alertData, created, updated) ==
  [id |-> id,
   type |-> alertData.type,
   severity |-> alertData.severity,
   title |-> alertData.title,
   description |-> alertData.description,
   docId |-> alertData.docId,
   docName |-> alertData.docName,
   resourceId |-> alertData.resourceId,
   resourceType |-> alertData.resourceType,
   metadata |-> alertData.metadata,
   status |-> ALERT_STATUS.OPEN,
   createdAt |-> created,
   updatedAt |-> updated]

\* const alert = {...}; alerts.push(alert): createdAt and updatedAt are two
\* reads of the clock, one after the other
PushAlert(S, alertData, t) ==
  [S EXCEPT !.alerts = Append(@, NewAlert(S.counter, alertData,
                                          ReadClock(S, t, S.reads + 1),
                                          ReadClock(S, t, S.reads + 2))),
            !.counter = @ + 1,
            !.reads = @ + 2]

\* a createAlert whose duplicate search forgets the status test
createAlertAnyStatus(S, alertData, t) ==
  IF \E i \in 1..Len(S.alerts) :
       /\ S.alerts[i].type = alertData.type
       /\ S.alerts[i].docId = alertData.docId
       /\ S.alerts[i].resourceId = alertData.resourceId
  THEN S
  ELSE PushAlert(S, alertData, t)

\* a createAlert without the duplicate search
createAlertNoDedup(S, alertData, t) ==
  PushAlert(S, alertData, t)

\* a createAlert that hands out alertIdCounter without advancing it
createAlertKeepsCounter(S, alertData, t) ==
  IF \E i \in 1..Len(S.alerts) : IsOpenDuplicate(S.alerts[i], alertData)
  THEN S
  ELSE [PushAlert(S, alertData, t) EXCEPT !.counter = S.counter]

\* a createAlert that lets a later finding overwrite the open duplicate
createAlertLastWins(S, alertData, t) ==
  IF \E i \in 1..Len(S.alerts) : IsOpenDuplicate(S.alerts[i], alertData)
  THEN LET i == CHOOSE j \in 1..Len(S.alerts) :
                  IsOpenDuplicate(S.alerts[j], alertData)
       IN  [S EXCEPT !.alerts[i].severity = alertData.severity,
                     !.alerts[i].title = alertData.title,
                     !.alerts[i].description = alertData.description,
                     !.alerts[i].metadata = alertData.metadata]
  ELSE PushAlert(S, alertData, t)

\* a createAlert whose duplicate search looks at the newest alert only
createAlertChecksLastOnly(S, alertData, t) ==
  IF /\ S.alerts # << >>
     /\ IsOpenDuplicate(S.alerts[Len(S.alerts)], alertData)
  THEN S
  ELSE PushAlert(S, alertData, t)

createAlert(S, alertData, t) ==
  IF \E i \in 1..Len(S.alerts) : IsOpenDuplicate(S.alerts[i], alertData)
  THEN S
  ELSE PushAlert(S, alertData, t)

(***************************************************************************)
(* The alert drafts a scan hands to createAlert.                           *)
(***************************************************************************)
UnusedDocumentDraft(doc, daysSinceUpdate) ==
  [type |-> ALERT_TYPES.UNUSED_DOCUMENT,
   severity |-> "low",
   title |-> <<"Unused Document: ", doc.name>>,
   description |-> <<"Document has not been modified in ", daysSinceUpdate, " days">>,
   docId |-> doc.id,
   docName |-> doc.name,
   resourceId |-> doc.id,
   resourceType |-> "document",
   metadata |-> [lastUpdated |-> doc.updatedAt, daysSinceUpdate |-> daysSinceUpdate]]

PublicDocumentDraft(doc) ==
  [type |-> ALERT_TYPES.PUBLIC_DOCUMENT,
   severity |-> "high",
   title |-> <<"Publicly Published: ", doc.name>>,
   description |-> <<"Document is publicly accessible - potential data exposure risk">>,
   docId |-> doc.id,
   docName |-> doc.name,
   resourceId |-> doc.id,
   resourceType |-> "document",
   metadata |-> [publishedUrl |-> doc.browserLink]]

SensitiveDataDraft(doc, table, row, colName, finding) ==
  [type |-> ALERT_TYPES.SENSITIVE_DATA_TABLE,
   severity |-> finding.severity,
   title |-> <<finding.name, " found in: ", table.name>>,
   description |-> <<"Detected ", finding.count, " instance(s) in column \"",
                     colName, "\"">>,
   docId |-> doc.id,
   docName |-> doc.name,
   resourceId |-> row.id,
   resourceType |-> "row",
   metadata |-> [tableId |-> table.id, tableName |-> table.name,
                 columnName |-> colName, sensitiveType |-> finding.type]]

RECURSIVE Flatten(_)
Flatten(ss) == IF ss = << >> THEN << >> ELSE Head(ss) \o Flatten(Tail(ss))

\* the staleness and the publication rule of one document, in code order
DocDrafts(doc, now) ==
  LET daysSinceUpdate == now - doc.updatedAt
  IN  (IF daysSinceUpdate >= TEN_MINUTES_MS
       THEN <<UnusedDocumentDraft(doc, daysSinceUpdate)>> ELSE << >>)
      \o (IF doc.published THEN <<PublicDocumentDraft(doc)>> ELSE << >>)

\* for (const finding of scanText(String(value)))
CellDrafts(doc, table, row, cell) ==
  LET findings == scanText(cell.value)
  IN  [i \in 1..Len(findings) |->
         SensitiveDataDraft(doc, table, row, cell.col, findings[i])]

\* for (const [colName, value] of Object.entries(row.values || {}))
RowDrafts(doc, table, row) ==
  Flatten([j \in 1..Len(row.values) |-> CellDrafts(doc, table, row, row.values[j])])

\* for (const row of rows)
RowsDrafts(doc, table, rows) ==
  Flatten([k \in 1..Len(rows) |-> RowDrafts(doc, table, rows[k])])

\* demo mode: every table of the document with its embedded rows
EmbeddedDrafts(doc, tables) ==
  Flatten([k \in 1..Len(tables) |-> RowsDrafts(doc, tables[k], tables[k].rows)])

(***************************************************************************)
(* One run of runSecurityScan between two awaits.  M = [L, S, drafts]: L   *)
(* the run's locals, S the store, drafts the drafts handed to createAlert  *)
(* since the run was resumed.                                              *)
(***************************************************************************)
RECURSIVE CreateAll(_, _, _)
CreateAll(S, drafts, t) ==
  IF drafts = << >> THEN S
  ELSE CreateAll(createAlert(S, Head(drafts), t), Tail(drafts), t)

\* createAlert(...); scanResults.alertsCreated++   for each draft
CreateAndCount(M, drafts, t) ==
  [L |-> [M.L EXCEPT !.results.alertsCreated = @ + Len(drafts)],
   S |-> CreateAll(M.S, drafts, t),
   drafts |-> M.drafts \o drafts]

\* the loop head and the document rules, up to await fetchTablesFromCoda
EnterDoc(M, t) ==
  IF M.L.di > Len(M.L.docs)
  THEN [M EXCEPT !.L.pc = "returned"]
  ELSE CreateAndCount(
         [M EXCEPT !.L.pc = "fetchTables", !.L.results.documentsScanned = @ + 1],
         DocDrafts(M.L.docs[M.L.di], M.L.now), t)

NextDoc(M, t) ==
  EnterDoc([M EXCEPT !.L.di = @ + 1, !.L.tables = << >>, !.L.ti = 0], t)

\* `tables` is what fetchTablesFromCoda resolved to
AfterTables(M, tables, dummy, t) ==
  IF dummy
  THEN NextDoc(CreateAndCount(M, EmbeddedDrafts(M.L.docs[M.L.di], tables), t), t)
  ELSE IF tables = << >>
       THEN NextDoc(M, t)
       ELSE [M EXCEPT !.L.tables = tables, !.L.ti = 1, !.L.pc = "fetchRows"]

\* `rows` is what fetchRowsFromCoda resolved to
AfterRows(M, rows, t) ==
  LET M1 == CreateAndCount(
              M, RowsDrafts(M.L.docs[M.L.di], M.L.tables[M.L.ti], rows), t)
  IN  IF M.L.ti < Len(M.L.tables)
      THEN [M1 EXCEPT !.L.ti = @ + 1]
      ELSE NextDoc(M1, t)

DraftKey(d) == <<d.type, d.docId, d.resourceId>>
AlertKey(a) == <<a.type, a.docId, a.resourceId>>

\* the callers of runSecurityScan: the start-up IIFE, the cron.schedule
\* callback and the POST /api/scan handler
Callers == {"startup", "cron", "manual"}

\* The runs of runSecurityScan that can be suspended at a time: nothing in
\* the code limits them, so there is a place for the initial run and for
\* every run the bounds let start.  A run takes the first free place.
Runs == 1..(Max(MaxScans, MaxOverlap) + 1)

NoResults == [documentsScanned |-> 0, alertsCreated |-> 0, errors |-> << >>]
NoHist == [valid |-> FALSE, now |-> 0, fails |-> {}, after |-> << >>]

\* Locals of a run: pc (where it is suspended), now, the array the for-of
\* loop iterates (docs) with its position (di), the tables of the current
\* document (tables, ti) and scanResults.  The rest records what the run
\* did: appended (alerts it pushed), fails (the fetches of it that failed),
\* quiet (no status change and no other run since it started), prev (at
\* its end: the undisturbed run that ended before it began, if any).
IdleScan ==
  [pc |-> "idle", caller |-> "none", now |-> 0, docs |-> << >>, di |-> 0,
   tables |-> << >>, ti |-> 0, results |-> NoResults,
   appended |-> 0, fails |-> {}, quiet |-> FALSE, prev |-> NoHist]

NoCall == [caller |-> "none", run |-> 0, what |-> "none", docId |-> "none",
           error |-> "none"]
NoResponse == [code |-> 0, success |-> FALSE, message |-> << >>, body |-> << >>]

Active(r) == scan[r].pc # "idle"
FreeRun == CHOOSE r \in Runs : ~Active(r) /\ \A o \in 1..(r - 1) : Active(o)
\* the store at the beginning of a step in which the clock advances just
\* before the reads in K
Store(K) == [alerts |-> alerts, counter |-> alertIdCounter, reads |-> 0, ticks |-> K]

\* The clock may advance between any two of the n reads of a step (an
\* advance before the first read is a Tick before the step).
TickSets(n) ==
  {K \in SUBSET (2..n) : Cardinality(K) <= StartClock + MaxTicks - clock}

Init ==
  /\ alerts = << >>
  /\ alertIdCounter = 1
  /\ documents = << >>
  /\ useDummyData \in BOOLEAN
  /\ coda = SmallSource
  /\ clock = StartClock
  /\ phase = "starting"
  /\ scan = [r \in Runs |-> IdleScan]
  /\ scansStarted = 0
  /\ reqCounter = 0
  /\ deleteCalls = << >>
  /\ hist = NoHist
  /\ lastScan = IdleScan
  /\ failedCall = NoCall
  /\ detected = {}
  /\ response = NoResponse

(***************************************************************************)
(* runSecurityScan.                                                        *)
(***************************************************************************)
\* a run is entered: scanResults, now, and the await of fetchDocumentsFromCoda
BeginScan(c) ==
  /\ LET alone == \A o \in Runs : ~Active(o)
     IN  /\ scan' = [o \in Runs |->
               IF o = FreeRun
               THEN [IdleScan EXCEPT !.pc = "fetchDocs", !.caller = c,
                                     !.now = clock, !.quiet = alone]
               ELSE IF Active(o) THEN [scan[o] EXCEPT !.quiet = FALSE]
               ELSE scan[o]]
         /\ hist' = IF alone THEN hist ELSE NoHist
  /\ lastScan' = IdleScan
  /\ failedCall' = NoCall
  /\ detected' = {}
  /\ response' = NoResponse
  /\ UNCHANGED <<alerts, alertIdCounter, documents, useDummyData, coda, clock,
                 reqCounter, deleteCalls>>

\* the IIFE: await runSecurityScan() before cron.schedule and app.listen
StartupScan ==
  /\ phase = "starting"
  /\ \A r \in Runs : scan[r].caller # "startup"
  /\ BeginScan("startup")
  /\ UNCHANGED <<phase, scansStarted>>

\* a cron.schedule placed ahead of the await of the initial scan
ScheduledScanAtOnce ==
  /\ phase \in {"starting", "serving"}
  /\ scansStarted < MaxScans
  /\ scansStarted' = scansStarted + 1
  /\ BeginScan("cron")
  /\ UNCHANGED phase

\* the cron.schedule callback
ScheduledScan ==
  /\ phase = "serving"
  /\ scansStarted < MaxScans
  /\ scansStarted' = scansStarted + 1
  /\ BeginScan("cron")
  /\ UNCHANGED phase

\* POST /api/scan
ManualScan ==
  /\ phase = "serving"
  /\ scansStarted < MaxScans
  /\ scansStarted' = scansStarted + 1
  /\ BeginScan("manual")
  /\ UNCHANGED phase

\* What the end of a run (return or throw) leaves of its locals.
Finished(L) == [L EXCEPT !.docs = << >>, !.di = 0, !.tables = << >>, !.ti = 0]

\* The store and the locals after run r ran up to M; when the run
\* has returned, its caller goes on: the IIFE schedules and listens, POST
\* /api/scan responds, the cron callback ends.
Resume(r, M) ==
  LET L == [M.L EXCEPT !.appended = @ + (Len(M.S.alerts) - Len(alerts))]
      done == L.pc = "returned"
  IN  /\ alerts' = M.S.alerts
      /\ alertIdCounter' = M.S.counter
      /\ clock' = ReadClock(M.S, clock, M.S.reads)
      /\ scan' = [scan EXCEPT ![r] = IF done THEN IdleScan ELSE L]
      /\ lastScan' = IF done THEN Finished([L EXCEPT !.prev = hist]) ELSE IdleScan
      /\ detected' = {DraftKey(M.drafts[i]) : i \in 1..Len(M.drafts)}
      /\ phase' = IF done /\ L.caller = "startup" THEN "serving" ELSE phase
      /\ response' = IF done /\ L.caller = "manual"
                     THEN [code |-> 200, success |-> TRUE, message |-> << >>,
                           body |-> <<L.results>>]
                     ELSE NoResponse
      /\ hist' = IF ~done THEN hist
                 ELSE IF L.quiet
                      THEN [valid |-> TRUE, now |-> L.now, fails |-> L.fails,
                            after |-> M.S.alerts]
                      ELSE NoHist

\* documents = await fetchDocumentsFromCoda()  resolved
FetchDocumentsOk(r) ==
  /\ scan[r].pc = "fetchDocs"
  /\ phase # "crashed"
  /\ documents' = CodaDocs(coda)
  /\ failedCall' = NoCall
  /\ LET Run(K) == EnterDoc([L |-> [scan[r] EXCEPT !.docs = CodaDocs(coda), !.di = 1],
                             S |-> Store(K), drafts |-> << >>], clock)
     IN  \E K \in TickSets(Run({}).S.reads) : Resume(r, Run(K))
  /\ UNCHANGED <<useDummyData, coda, scansStarted, reqCounter, deleteCalls>>

\* What the rejection of runSecurityScan does to its caller: the IIFE does
\* not catch it, so neither cron.schedule nor app.listen is reached; POST
\* /api/scan answers 500; in the cron callback it is an unhandled
\* rejection, which ends the process or not depending on the runtime.
ScanThrew(r, err) ==
  /\ scan' = [scan EXCEPT ![r] = IdleScan]
  /\ lastScan' = Finished([scan[r] EXCEPT !.pc = "threw", !.fails = @ \cup {<<"documents", "all">>}])
  /\ failedCall' = [caller |-> scan[r].caller, run |-> r, what |-> "documents",
                    docId |-> "none", error |-> err]
  /\ detected' = {}
  /\ hist' = NoHist
  /\ phase' \in (IF scan[r].caller = "startup" THEN {"crashed"}
                 ELSE IF scan[r].caller = "cron" THEN {"serving", "crashed"}
                 ELSE {phase})
  /\ response' = IF scan[r].caller = "manual"
                 THEN [code |-> 500, success |-> FALSE,
                       message |-> <<"Scan failed", err>>, body |-> << >>]
                 ELSE NoResponse

\* a failing fetch that also empties the retained snapshot
FetchDocumentsFailClears(r, err) ==
  /\ scan[r].pc = "fetchDocs"
  /\ phase # "crashed"
  /\ documents' = << >>
  /\ ScanThrew(r, err)
  /\ UNCHANGED <<alerts, alertIdCounter, useDummyData, coda, clock, scansStarted,
                 reqCounter, deleteCalls>>

\* documents = await fetchDocumentsFromCoda()  threw: the assignment is not
\* made and the error leaves runSecurityScan through its catch.
FetchDocumentsFail(r, err) ==
  /\ scan[r].pc = "fetchDocs"
  /\ phase # "crashed"
  /\ ScanThrew(r, err)
  /\ UNCHANGED <<alerts, alertIdCounter, documents, useDummyData, coda, clock,
                 scansStarted, reqCounter, deleteCalls>>

\* tables = await fetchTablesFromCoda(doc.id)  resolved with the tables
FetchTablesOk(r) ==
  /\ scan[r].pc = "fetchTables"
  /\ phase # "crashed"
  /\ failedCall' = NoCall
  /\ LET L == scan[r]
         Run(K) == AfterTables([L |-> L, S |-> Store(K), drafts |-> << >>],
                               CodaTables(coda, L.docs[L.di].id), useDummyData, clock)
     IN  \E K \in TickSets(Run({}).S.reads) : Resume(r, Run(K))
  /\ UNCHANGED <<documents, useDummyData, coda, scansStarted, reqCounter,
                 deleteCalls>>

\* the request of fetchTablesFromCoda failed: its catch logs and returns []
FetchTablesFail(r, err) ==
  /\ scan[r].pc = "fetchTables"
  /\ phase # "crashed"
  /\ LET L == scan[r]
     IN  /\ failedCall' = [caller |-> L.caller, run |-> r, what |-> "tables",
                          docId |-> L.docs[L.di].id,
                          error |-> "none"]
         /\ LET Run(K) ==
                  AfterTables(
                    [L |-> [L EXCEPT !.fails = @ \cup {<<"tables", L.docs[L.di].id>>}],
                     S |-> Store(K), drafts |-> << >>],
                    << >>, useDummyData, clock)
            IN  \E K \in TickSets(Run({}).S.reads) : Resume(r, Run(K))
  /\ UNCHANGED <<documents, useDummyData, coda, scansStarted, reqCounter,
                 deleteCalls>>

\* rows = await fetchRowsFromCoda(doc.id, table.id)  resolved with the rows
FetchRowsOk(r) ==
  /\ scan[r].pc = "fetchRows"
  /\ phase # "crashed"
  /\ failedCall' = NoCall
  /\ LET L == scan[r]
         Run(K) == AfterRows([L |-> L, S |-> Store(K), drafts |-> << >>],
                             CodaRows(coda, L.docs[L.di].id, L.tables[L.ti].id), clock)
     IN  \E K \in TickSets(Run({}).S.reads) : Resume(r, Run(K))
  /\ UNCHANGED <<documents, useDummyData, coda, scansStarted, reqCounter,
                 deleteCalls>>

\* a fetchRowsFromCoda that rethrows: the document's catch records the
\* error and the remaining tables of the document are skipped
FetchRowsFailRethrows(r, err) ==
  /\ scan[r].pc = "fetchRows"
  /\ phase # "crashed"
  /\ LET L == scan[r]
     IN  /\ failedCall' = [caller |-> L.caller, run |-> r, what |-> "rows",
                          docId |-> L.docs[L.di].id,
                          error |-> "none"]
         /\ LET Run(K) ==
                  NextDoc(
                    [L |-> [L EXCEPT !.fails = @ \cup {<<"rows", L.tables[L.ti].id>>},
                                     !.results.errors =
                                        Append(@, [docId |-> L.docs[L.di].id,
                                                   error |-> err])],
                     S |-> Store(K), drafts |-> << >>], clock)
            IN  \E K \in TickSets(Run({}).S.reads) : Resume(r, Run(K))
  /\ UNCHANGED <<documents, useDummyData, coda, scansStarted, reqCounter,
                 deleteCalls>>

\* the request of fetchRowsFromCoda failed: its catch logs and returns []
FetchRowsFail(r, err) ==
  /\ scan[r].pc = "fetchRows"
  /\ phase # "crashed"
  /\ LET L == scan[r]
     IN  /\ failedCall' = [caller |-> L.caller, run |-> r, what |-> "rows",
                          docId |-> L.docs[L.di].id,
                          error |-> "none"]
         /\ LET Run(K) ==
                  AfterRows(
                    [L |-> [L EXCEPT !.fails = @ \cup {<<"rows", L.tables[L.ti].id>>}],
                     S |-> Store(K), drafts |-> << >>],
                    << >>, clock)
            IN  \E K \in TickSets(Run({}).S.reads) : Resume(r, Run(K))
  /\ UNCHANGED <<documents, useDummyData, coda, scansStarted, reqCounter,
                 deleteCalls>>

(***************************************************************************)
(* The endpoints that address one alert.                                   *)
(***************************************************************************)
Remove(s, k) == SubSeq(s, 1, k - 1) \o SubSeq(s, k + 1, Len(s))

\* alerts.find(a => a.id === parseInt(req.params.id)): the index, 0 if none
FindById(id) ==
  IF \E i \in 1..Len(alerts) : alerts[i].id = id
  THEN CHOOSE i \in 1..Len(alerts) :
         /\ alerts[i].id = id
         /\ \A j \in 1..(i - 1) : alerts[j].id # id
  ELSE 0

\* a status write that leaves updatedAt as it was
SetStatusKeepsTime(i, status) ==
  alerts' = [alerts EXCEPT ![i].status = status]

\* a status write that also stamps createdAt
SetStatusResetsCreated(i, status) ==
  alerts' = [alerts EXCEPT ![i].status = status, ![i].updatedAt = clock,
                           ![i].createdAt = clock]

\* alert.status = status; alert.updatedAt = new Date().toISOString()
SetStatus(i, status) ==
  alerts' = [alerts EXCEPT ![i].status = status, ![i].updatedAt = clock]

\* a status was written: no run in progress is undisturbed any more
StatusWritten ==
  /\ scan' = [r \in Runs |->
                IF Active(r) THEN [scan[r] EXCEPT !.quiet = FALSE] ELSE scan[r]]
  /\ hist' = NoHist

Reply(code, success, message, body) ==
  response' = [code |-> code, success |-> success, message |-> message,
               body |-> body]

\* the ids a request may carry: those assigned so far and the next one,
\* which no alert has
RequestIds == 1..alertIdCounter
\* a status outside ALERT_STATUS, an action outside the switch
RequestStatuses == StatusValues \cup {"bogus"}
RequestActions == {"delete", "acknowledge", "ignore", "bogus"}

\* a status-set handler without the test of the new status
PatchStatusNoValidation(id, status) ==
  /\ phase = "serving"
  /\ reqCounter < MaxRequests
  /\ reqCounter' = reqCounter + 1
  /\ LET i == FindById(id)
     IN  IF i = 0
         THEN /\ Reply(404, FALSE, <<"Alert not found">>, << >>)
              /\ UNCHANGED <<alerts, scan, hist>>
         ELSE /\ SetStatus(i, status)
              /\ StatusWritten
              /\ Reply(200, TRUE, << >>,
                       <<[alerts[i] EXCEPT !.status = status, !.updatedAt = clock]>>)
  /\ lastScan' = IdleScan
  /\ failedCall' = NoCall
  /\ detected' = {}
  /\ UNCHANGED <<alertIdCounter, documents, useDummyData, coda, clock, phase,
                 scansStarted, deleteCalls>>

\* PATCH /api/alerts/:id/status
PatchStatus(id, status) ==
  /\ phase = "serving"
  /\ reqCounter < MaxRequests
  /\ reqCounter' = reqCounter + 1
  /\ LET i == FindById(id)
     IN  IF i = 0
         THEN /\ Reply(404, FALSE, <<"Alert not found">>, << >>)
              /\ UNCHANGED <<alerts, scan, hist>>
         ELSE IF status \notin StatusValues
         THEN /\ Reply(400, FALSE, <<"Invalid status">>, << >>)
              /\ UNCHANGED <<alerts, scan, hist>>
         ELSE /\ SetStatus(i, status)
              /\ StatusWritten
              /\ Reply(200, TRUE, << >>,
                       <<[alerts[i] EXCEPT !.status = status, !.updatedAt = clock]>>)
  /\ lastScan' = IdleScan
  /\ failedCall' = NoCall
  /\ detected' = {}
  /\ UNCHANGED <<alertIdCounter, documents, useDummyData, coda, clock, phase,
                 scansStarted, deleteCalls>>

\* alert.metadata.tableId (undefined when the metadata has none)
TableIdOf(a) ==
  IF "tableId" \in DOMAIN a.metadata THEN a.metadata.tableId ELSE "undefined"

DeleteCall(i) ==
  [alert |-> i, docId |-> alerts[i].docId, tableId |-> TableIdOf(alerts[i]),
   rowId |-> alerts[i].resourceId]

\* a switch whose delete case lacks the resourceType test
RemediateActionAnyResource(i, action) ==
  IF action = "delete"
  THEN /\ deleteCalls' = Append(deleteCalls, DeleteCall(i))
       /\ response' = NoResponse
       /\ UNCHANGED <<alerts, scan, hist>>
  ELSE IF action = "acknowledge"
  THEN /\ SetStatus(i, ALERT_STATUS.ACKNOWLEDGED)
       /\ StatusWritten
       /\ Reply(200, TRUE, <<"Alert acknowledged">>, << >>)
       /\ UNCHANGED deleteCalls
  ELSE IF action = "ignore"
  THEN /\ SetStatus(i, ALERT_STATUS.IGNORED)
       /\ StatusWritten
       /\ Reply(200, TRUE, <<"Alert ignored">>, << >>)
       /\ UNCHANGED deleteCalls
  ELSE /\ Reply(200, FALSE,
                <<"Invalid action. Use: delete, acknowledge, or ignore">>, << >>)
       /\ UNCHANGED <<alerts, scan, hist, deleteCalls>>

\* a switch whose delete case marks the alert before the call is awaited
RemediateActionMarksFirst(i, action) ==
  IF action = "delete" /\ alerts[i].resourceType = "row"
  THEN /\ deleteCalls' = Append(deleteCalls, DeleteCall(i))
       /\ SetStatus(i, ALERT_STATUS.REMEDIATED)
       /\ StatusWritten
       /\ response' = NoResponse
  ELSE IF action = "delete"
  THEN /\ Reply(200, FALSE, <<"Delete action only supported for table rows">>, << >>)
       /\ UNCHANGED <<alerts, scan, hist, deleteCalls>>
  ELSE IF action = "acknowledge"
  THEN /\ SetStatus(i, ALERT_STATUS.ACKNOWLEDGED)
       /\ StatusWritten
       /\ Reply(200, TRUE, <<"Alert acknowledged">>, << >>)
       /\ UNCHANGED deleteCalls
  ELSE IF action = "ignore"
  THEN /\ SetStatus(i, ALERT_STATUS.IGNORED)
       /\ StatusWritten
       /\ Reply(200, TRUE, <<"Alert ignored">>, << >>)
       /\ UNCHANGED deleteCalls
  ELSE /\ Reply(200, FALSE,
                <<"Invalid action. Use: delete, acknowledge, or ignore">>, << >>)
       /\ UNCHANGED <<alerts, scan, hist, deleteCalls>>

\* switch (action), on the alert at index i, up to res.json(result) or, for
\* a delete of a row, up to await deleteRowFromCoda(docId, metadata.tableId,
\* resourceId)
RemediateAction(i, action) ==
  IF action = "delete" /\ alerts[i].resourceType = "row"
  THEN /\ deleteCalls' = Append(deleteCalls, DeleteCall(i))
       /\ response' = NoResponse
       /\ UNCHANGED <<alerts, scan, hist>>
  ELSE IF action = "delete"
  THEN /\ Reply(200, FALSE, <<"Delete action only supported for table rows">>, << >>)
       /\ UNCHANGED <<alerts, scan, hist, deleteCalls>>
  ELSE IF action = "acknowledge"
  THEN /\ SetStatus(i, ALERT_STATUS.ACKNOWLEDGED)
       /\ StatusWritten
       /\ Reply(200, TRUE, <<"Alert acknowledged">>, << >>)
       /\ UNCHANGED deleteCalls
  ELSE IF action = "ignore"
  THEN /\ SetStatus(i, ALERT_STATUS.IGNORED)
       /\ StatusWritten
       /\ Reply(200, TRUE, <<"Alert ignored">>, << >>)
       /\ UNCHANGED deleteCalls
  ELSE /\ Reply(200, FALSE,
                <<"Invalid action. Use: delete, acknowledge, or ignore">>, << >>)
       /\ UNCHANGED <<alerts, scan, hist, deleteCalls>>

\* a remediate handler that takes an unknown action for ignore
RemediateUnknownIgnores(id, action) ==
  /\ phase = "serving"
  /\ reqCounter < MaxRequests
  /\ reqCounter' = reqCounter + 1
  /\ IF FindById(id) = 0
     THEN /\ Reply(404, FALSE, <<"Alert not found">>, << >>)
          /\ UNCHANGED <<alerts, scan, hist, deleteCalls>>
     ELSE RemediateAction(FindById(id),
                          IF action \in {"delete", "acknowledge", "ignore"}
                          THEN action ELSE "ignore")
  /\ lastScan' = IdleScan
  /\ failedCall' = NoCall
  /\ detected' = {}
  /\ UNCHANGED <<alertIdCounter, documents, useDummyData, coda, clock, phase,
                 scansStarted>>

\* POST /api/alerts/:id/remediate
Remediate(id, action) ==
  /\ phase = "serving"
  /\ reqCounter < MaxRequests
  /\ reqCounter' = reqCounter + 1
  /\ IF FindById(id) = 0
     THEN /\ Reply(404, FALSE, <<"Alert not found">>, << >>)
          /\ UNCHANGED <<alerts, scan, hist, deleteCalls>>
     ELSE RemediateAction(FindById(id), action)
  /\ lastScan' = IdleScan
  /\ failedCall' = NoCall
  /\ detected' = {}
  /\ UNCHANGED <<alertIdCounter, documents, useDummyData, coda, clock, phase,
                 scansStarted>>

\* a delete that marks the alert remediated although the call failed
DeleteRowFailMarks(k, err) ==
  /\ phase # "crashed"
  /\ k \in 1..Len(deleteCalls)
  /\ deleteCalls' = Remove(deleteCalls, k)
  /\ failedCall' = [caller |-> "remediate", run |-> 0, what |-> "deleteRow",
                    docId |-> deleteCalls[k].docId, error |-> err]
  /\ SetStatus(deleteCalls[k].alert, ALERT_STATUS.REMEDIATED)
  /\ Reply(200, FALSE, <<"Failed to delete: ", err>>, << >>)
  /\ lastScan' = IdleScan
  /\ detected' = {}
  /\ UNCHANGED <<alertIdCounter, documents, useDummyData, coda, clock, phase,
                 scan, scansStarted, reqCounter, hist>>

\* await deleteRowFromCoda(...) resolved: the alert found when the request
\* came in is marked remediated, whatever its status is by now
DeleteRowOk(k) ==
  /\ phase # "crashed"
  /\ k \in 1..Len(deleteCalls)
  /\ deleteCalls' = Remove(deleteCalls, k)
  /\ SetStatus(deleteCalls[k].alert, ALERT_STATUS.REMEDIATED)
  /\ StatusWritten
  /\ Reply(200, TRUE, <<"Row deleted successfully">>, << >>)
  /\ lastScan' = IdleScan
  /\ failedCall' = NoCall
  /\ detected' = {}
  /\ UNCHANGED <<alertIdCounter, documents, useDummyData, coda, clock, phase,
                 scansStarted, reqCounter>>

\* await deleteRowFromCoda(...) threw: the catch builds the failure result
DeleteRowFail(k, err) ==
  /\ phase # "crashed"
  /\ k \in 1..Len(deleteCalls)
  /\ deleteCalls' = Remove(deleteCalls, k)
  /\ failedCall' = [caller |-> "remediate", run |-> 0, what |-> "deleteRow",
                    docId |-> deleteCalls[k].docId, error |-> err]
  /\ Reply(200, FALSE, <<"Failed to delete: ", err>>, << >>)
  /\ lastScan' = IdleScan
  /\ detected' = {}
  /\ UNCHANGED <<alerts, alertIdCounter, documents, useDummyData, coda, clock, phase,
                 scan, scansStarted, reqCounter, hist>>

\* time passes
Tick ==
  /\ phase # "crashed"
  /\ clock < StartClock + MaxTicks
  /\ clock' = clock + 1
  /\ lastScan' = IdleScan
  /\ failedCall' = NoCall
  /\ detected' = {}
  /\ response' = NoResponse
  /\ UNCHANGED <<alerts, alertIdCounter, documents, useDummyData, coda, phase, scan,
                 scansStarted, reqCounter, deleteCalls, hist>>

Next ==
  \/ StartupScan
  \/ ScheduledScan
  \/ ManualScan
  \/ \E r \in Runs : FetchDocumentsOk(r)
  \/ \E r \in Runs, err \in ErrorMessages : FetchDocumentsFail(r, err)
  \/ \E r \in Runs : FetchTablesOk(r)
  \/ \E r \in Runs, err \in ErrorMessages : FetchTablesFail(r, err)
  \/ \E r \in Runs : FetchRowsOk(r)
  \/ \E r \in Runs, err \in ErrorMessages : FetchRowsFail(r, err)
  \/ \E id \in RequestIds, status \in RequestStatuses : PatchStatus(id, status)
  \/ \E id \in RequestIds, action \in RequestActions : Remediate(id, action)
  \/ \E k \in 1..MaxRequests : DeleteRowOk(k)
  \/ \E k \in 1..MaxRequests, err \in ErrorMessages : DeleteRowFail(k, err)
  \/ Tick

Spec == Init /\ [][Next]_vars

(***************************************************************************)
(* The read endpoints.                                                     *)
(***************************************************************************)
\* severityOrder[severity] || 0
severityOrder(severity) ==
  CASE severity = "critical" -> 4
    [] severity = "high" -> 3
    [] severity = "medium" -> 2
    [] severity = "low" -> 1
    [] OTHER -> 0

\* a comparator that ranks by severity alone
CompareSeverityOnly(a, b) == severityOrder(b.severity) - severityOrder(a.severity)

\* the comparator of [...alerts].sort; createdAt is the ms count that
\* new Date(toISOString()) gives back
Compare(a, b) ==
  LET severityDiff == severityOrder(b.severity) - severityOrder(a.severity)
  IN  IF severityDiff # 0 THEN severityDiff ELSE b.createdAt - a.createdAt

\* x put into a sorted sequence behind every element that does not come
\* after it (Array.prototype.sort is stable)
InsertSorted(sorted, x) ==
  LET before == SelectSeq(sorted, LAMBDA e : Compare(e, x) <= 0)
      after == SelectSeq(sorted, LAMBDA e : Compare(e, x) > 0)
  IN  before \o <<x>> \o after

\* [...alerts].sort(comparator)
RECURSIVE SortAlerts(_)
SortAlerts(as) ==
  IF as = << >> THEN << >>
  ELSE InsertSorted(SortAlerts(SubSeq(as, 1, Len(as) - 1)), as[Len(as)])

\* a count that looks at open alerts only
CountByOpenOnly(as, field) ==
  [v \in {as[i][field] : i \in 1..Len(as)} |->
     Cardinality({i \in 1..Len(as) : as[i][field] = v /\ as[i].status = "open"})]

\* stats.byX[alert.x] = (stats.byX[alert.x] || 0) + 1 over all alerts: an
\* entry for each value some alert carries
CountBy(as, field) ==
  [v \in {as[i][field] : i \in 1..Len(as)} |->
     Cardinality({i \in 1..Len(as) : as[i][field] = v})]

Stats(as) ==
  [total |-> Len(as),
   byStatus |-> CountBy(as, "status"),
   byType |-> CountBy(as, "type"),
   bySeverity |-> CountBy(as, "severity")]

\* Math.ceil(total / limit), limit > 0
CeilDiv(total, limit) == (total + limit - 1) \div limit

\* parseInt(page), parseInt(limit) of the query; 1 and 10 when absent
RequestPages == 1..2
RequestLimits == {1, 2, 10}

\* what a read leaves of the observations of the last step
ReadDone ==
  /\ lastScan' = IdleScan
  /\ failedCall' = NoCall
  /\ detected' = {}
  /\ UNCHANGED <<alerts, alertIdCounter, documents, useDummyData, coda, clock, phase,
                 scan, scansStarted, reqCounter, deleteCalls, hist>>

\* GET /api/data
GetData ==
  /\ phase = "serving"
  /\ Reply(200, TRUE, << >>,
           <<[documents |-> documents,
              alerts |-> SortAlerts(alerts),
              stats |-> Stats(alerts),
              lastScan |-> clock,
              mode |-> IF useDummyData THEN "demo" ELSE "live"]>>)
  /\ ReadDone

\* GET /api/alerts?page=&limit=
GetAlerts(page, limit) ==
  /\ phase = "serving"
  /\ LET sorted == SortAlerts(alerts)
         total == Len(sorted)
         start == (page - 1) * limit
         items == JsSlice(sorted, start, start + limit)
     IN  Reply(200, TRUE, << >>,
               <<[items |-> items,
                  pagination |-> [page |-> page, limit |-> limit, total |-> total,
                                  totalPages |-> CeilDiv(total, limit)]]>>)
  /\ ReadDone

\* a statistics handler that waits until no scan is running
GetStatsWaitsForScan ==
  /\ phase = "serving"
  /\ \A r \in Runs : ~Active(r)
  /\ Reply(200, TRUE, << >>, <<Stats(alerts)>>)
  /\ ReadDone

\* GET /api/alerts/stats
GetStats ==
  /\ phase = "serving"
  /\ Reply(200, TRUE, << >>, <<Stats(alerts)>>)
  /\ ReadDone

\* GET /api/alerts/:id
GetAlert(id) ==
  /\ phase = "serving"
  /\ IF FindById(id) = 0
     THEN Reply(404, FALSE, <<"Alert not found">>, << >>)
     ELSE Reply(200, TRUE, << >>, <<alerts[FindById(id)]>>)
  /\ ReadDone

ReadRequest ==
  \/ GetData
  \/ \E page \in RequestPages, limit \in RequestLimits : GetAlerts(page, limit)
  \/ GetStats
  \/ \E id \in RequestIds : GetAlert(id)

(***************************************************************************)
(* The read endpoints over the stores of up to MaxStore alerts.            *)
(***************************************************************************)
\* alert data as the scans of SmallSource hand it to createAlert: a public
\* and an unused document, and the three findings of row r1
SampleDrafts ==
  DocDrafts(CodaDocs(SmallSource)[1], StartClock)
    \o DocDrafts(CodaDocs(SmallSource)[2], StartClock + 1)
    \o RowDrafts(CodaDocs(SmallSource)[1], CodaTables(SmallSource, "d1")[1], Row1)

\* the choices for one stored alert: its data, when it was created, and
\* whether it is still open
StoreChoices ==
  (1..Len(SampleDrafts)) \X {StartClock, StartClock + 1}
    \X {ALERT_STATUS.OPEN, ALERT_STATUS.REMEDIATED}

\* the stores of n alerts: ids 1..n in creation order, createdAt never
\* decreasing
StoresOf(n) ==
  {[i \in 1..n |->
      [NewAlert(i, SampleDrafts[f[i][1]], f[i][2], f[i][2])
         EXCEPT !.status = f[i][3]]] :
     f \in {g \in [1..n -> StoreChoices] :
              \A i \in 1..(n - 1) : g[i][2] <= g[i + 1][2]}}

ListInit ==
  /\ alerts \in UNION {StoresOf(n) : n \in 0..MaxStore}
  /\ alertIdCounter = Len(alerts) + 1
  /\ documents = CodaDocs(SmallSource)
  /\ useDummyData = FALSE
  /\ coda = SmallSource
  /\ clock = StartClock + 1
  /\ phase = "serving"
  /\ scan = [r \in Runs |-> IdleScan]
  /\ scansStarted = 0
  /\ reqCounter = 0
  /\ deleteCalls = << >>
  /\ hist = NoHist
  /\ lastScan = IdleScan
  /\ failedCall = NoCall
  /\ detected = {}
  /\ response = NoResponse

ListNext == ReadRequest

ListSpec == ListInit /\ [][ListNext]_vars

(***************************************************************************)
(* The service with its read endpoints.                                    *)
(***************************************************************************)
\* the process in live mode, where a scan awaits the rows of each table
ServiceInit == Init /\ useDummyData = FALSE

\* the reads with the default page
ServiceRead ==
  \/ GetData
  \/ GetAlerts(1, 10)
  \/ GetStats
  \/ \E id \in RequestIds : GetAlert(id)

ServiceNext == Next \/ ServiceRead

ServiceSpec == ServiceInit /\ [][ServiceNext]_vars

(***************************************************************************)
(* Overlapping runs.  Nothing keeps cron.schedule's callback and POST      *)
(* /api/scan from entering runSecurityScan while another run is suspended  *)
(* at an await.  OverlapSpec is the live-mode service with its scans only, *)
(* over a source whose first document has two tables.                      *)
(***************************************************************************)
\* d1 holds table t1 (row r1, three findings) and table t2 (row r2, one
\* finding); d2 is as in SmallSource
TwoTableSource ==
  << [doc |-> [id |-> "d1", name |-> "Payroll", updatedAt |-> StartClock,
               published |-> TRUE, browserLink |-> "https://coda.io/d/d1"],
      tables |-> << [table |-> [id |-> "t1", name |-> "Cards", rows |-> <<Row1>>],
                     rows |-> <<Row1>>],
                    [table |-> [id |-> "t2", name |-> "Contacts", rows |-> <<Row2>>],
                     rows |-> <<Row2>>] >>],
     [doc |-> [id |-> "d2", name |-> "Roadmap", updatedAt |-> 2,
               published |-> FALSE, browserLink |-> "https://coda.io/d/d2"],
      tables |-> << >>] >>

OverlapInit ==
  /\ alerts = << >>
  /\ alertIdCounter = 1
  /\ documents = << >>
  /\ useDummyData = FALSE
  /\ coda = TwoTableSource
  /\ clock = StartClock
  /\ phase = "starting"
  /\ scan = [r \in Runs |-> IdleScan]
  /\ scansStarted = 0
  /\ reqCounter = 0
  /\ deleteCalls = << >>
  /\ hist = NoHist
  /\ lastScan = IdleScan
  /\ failedCall = NoCall
  /\ detected = {}
  /\ response = NoResponse

\* the cron.schedule callback, whether or not a run is in progress
OverlapScheduledScan ==
  /\ phase = "serving"
  /\ scansStarted < MaxOverlap
  /\ scansStarted' = scansStarted + 1
  /\ BeginScan("cron")
  /\ UNCHANGED phase

\* POST /api/scan, whether or not a run is in progress
OverlapManualScan ==
  /\ phase = "serving"
  /\ scansStarted < MaxOverlap
  /\ scansStarted' = scansStarted + 1
  /\ BeginScan("manual")
  /\ UNCHANGED phase

OverlapNext ==
  \/ StartupScan
  \/ OverlapScheduledScan
  \/ OverlapManualScan
  \/ \E r \in Runs : FetchDocumentsOk(r)
  \/ \E r \in Runs, err \in ErrorMessages : FetchDocumentsFail(r, err)
  \/ \E r \in Runs : FetchTablesOk(r)
  \/ \E r \in Runs, err \in ErrorMessages : FetchTablesFail(r, err)
  \/ \E r \in Runs : FetchRowsOk(r)
  \/ \E r \in Runs, err \in ErrorMessages : FetchRowsFail(r, err)
  \/ Tick

OverlapSpec == OverlapInit /\ [][OverlapNext]_vars

(***************************************************************************)
(* scanText on its own.  RedactSpec starts with one cell of one row in the *)
(* source and applies scanText to it, as the row loop of runSecurityScan   *)
(* does; the response holds the findings.                                  *)
(***************************************************************************)
\* the longest value after "pwd=" and the most matches in a cell
MaxTail == 6
MaxMatches == 3

TailChars == {"*", "a"}
Tails == UNION {[1..n -> TailChars] : n \in 1..MaxTail}

\* what /\b(?:password|passwd|pwd)\s*[:=]\s*\S+/gi matches in "pwd=<tail>"
PasswordMatch(tail) == [type |-> "password", m |-> <<"p", "w", "d", "=">> \o tail]

SampleMatches ==
  {PasswordMatch(<<"a", "a", "a">>),
   PasswordMatch(<<"*", "*", "*", "*", "a", "a">>),
   [type |-> "email", m |-> <<"a", "@", "b", ".", "i", "o">>],
   [type |-> "awsKey", m |-> <<"A", "K", "I", "A", "0", "1", "2", "3", "4", "5",
                               "6", "7", "8", "9", "A", "B", "C", "D", "E", "F">>]}

\* the matches ms in a text, a blank between two of them
Spaced(ms) ==
  [i \in 1..(2 * Len(ms) - 1) |->
     IF i % 2 = 1 THEN ms[(i + 1) \div 2] ELSE [type |-> "plain", m |-> <<" ">>]]

CellTexts ==
  {<<PasswordMatch(tail)>> : tail \in Tails}
  \cup UNION {{Spaced(ms) : ms \in [1..n -> SampleMatches]} : n \in 1..MaxMatches}
  \cup {CardText, NotesText, ContactText}

CellSource(text) ==
  << [doc |-> [id |-> "d1", name |-> "Payroll", updatedAt |-> StartClock,
               published |-> FALSE, browserLink |-> "https://coda.io/d/d1"],
      tables |-> << [table |-> [id |-> "t1", name |-> "Cards", rows |-> << >>],
                     rows |-> << [id |-> "r1",
                                  values |-> << [col |-> "c", value |-> text] >>] >>] >>] >>

\* the cell of a CellSource
CellText == coda[1].tables[1].rows[1].values[1].value

RedactInit ==
  /\ alerts = << >>
  /\ alertIdCounter = 1
  /\ documents = << >>
  /\ useDummyData = FALSE
  /\ coda \in {CellSource(text) : text \in CellTexts}
  /\ clock = StartClock
  /\ phase = "starting"
  /\ scan = [r \in Runs |-> IdleScan]
  /\ scansStarted = 0
  /\ reqCounter = 0
  /\ deleteCalls = << >>
  /\ hist = NoHist
  /\ lastScan = IdleScan
  /\ failedCall = NoCall
  /\ detected = {}
  /\ response = NoResponse

\* const findings = scanText(String(value))
ScanCell ==
  /\ response = NoResponse
  /\ Reply(200, TRUE, << >>, scanText(CellText))
  /\ UNCHANGED <<alerts, alertIdCounter, documents, useDummyData, coda, clock,
                 phase, scan, scansStarted, reqCounter, deleteCalls, hist,
                 lastScan, failedCall, detected>>

RedactNext == ScanCell

RedactSpec == RedactInit /\ [][RedactNext]_vars

(***************************************************************************)
(* Properties.                                                             *)
(***************************************************************************)
IsOpen(a) == a.status = ALERT_STATUS.OPEN
Indices == 1..Len(alerts)

\* C1: in every reachable state at most one alert with status open exists
\* for any (type, docId, resourceId).
C1_AtMostOneOpenPerKey ==
  \A i, j \in Indices :
    (i # j /\ IsOpen(alerts[i]) /\ IsOpen(alerts[j]))
      => AlertKey(alerts[i]) # AlertKey(alerts[j])

\* C2: the only status changes a step ever makes to an alert are
\* open -> acknowledged, open -> remediated and open -> ignored.
C2_StatusOnlyMovesForward ==
  [][\A i \in Indices :
       alerts'[i].status # alerts[i].status
         => /\ alerts[i].status = ALERT_STATUS.OPEN
            /\ alerts'[i].status \in {ALERT_STATUS.ACKNOWLEDGED,
                                      ALERT_STATUS.REMEDIATED,
                                      ALERT_STATUS.IGNORED}]_vars

\* C3: when a run returns, its alertsCreated is the number of alerts the
\* run appended to the store.
C3_AlertsCreatedCountsAppended ==
  lastScan.pc = "returned" => lastScan.results.alertsCreated = lastScan.appended

\* the scanResults of run r after a step of it
ResultsOf(r) == IF Active(r) THEN scan[r].results ELSE lastScan.results

\* C4: when the table listing of a document has failed in a run, the run's
\* errors hold an entry for that document, and the run has gone on to the
\* next document or returned.
C4_TableFailureRecorded ==
  failedCall.what = "tables"
    => /\ \E k \in 1..Len(ResultsOf(failedCall.run).errors) :
            ResultsOf(failedCall.run).errors[k].docId = failedCall.docId
       /\ \/ lastScan.pc = "returned"
          \/ scan[failedCall.run].docs[scan[failedCall.run].di].id
               # failedCall.docId

\* C5: a step in which the document listing of a run fails ends the run by
\* throwing, hands no result to the caller, and changes neither the alerts
\* (nor the id counter) nor the retained document snapshot.
C5_FatalFetchLeavesStore ==
  [][\A r \in Runs :
       (scan[r].pc = "fetchDocs" /\ failedCall'.what = "documents"
          /\ failedCall'.run = r)
         => /\ lastScan'.pc = "threw"
            /\ lastScan'.results = NoResults
            /\ response'.body = << >>
            /\ (scan[r].caller = "manual"
                  => response'.code = 500 /\ ~response'.success)
            /\ alerts' = alerts
            /\ alertIdCounter' = alertIdCounter
            /\ documents' = documents]_vars

\* a run after the start-up scan failed at the document listing while
\* alerts and a document snapshot were there to lose
C5_Witness ==
  /\ lastScan.pc = "threw"
  /\ lastScan.caller # "startup"
  /\ alerts # << >>
  /\ documents # << >>

\* each document is on the same side of the staleness threshold at t1 and t2
SameStaleness(t1, t2) ==
  \A i \in 1..Len(coda) :
    (t1 - coda[i].doc.updatedAt >= TEN_MINUTES_MS)
      <=> (t2 - coda[i].doc.updatedAt >= TEN_MINUTES_MS)

\* the run that returned in the last step began after an undisturbed run had
\* ended, with no status change in either run or between them, and its
\* fetches were answered as those of that run were
SecondRunReturned ==
  /\ lastScan.pc = "returned"
  /\ lastScan.prev.valid
  /\ lastScan.prev.fails = lastScan.fails

\* C6 as claimed: the second of two runs in sequence over an unchanged
\* source, with no status change, leaves the alerts as the first run left
\* them.
C6_SecondRunChangesNothing ==
  SecondRunReturned => alerts = lastScan.prev.after

\* C6 as amended: ... provided every document is on the same side of the
\* staleness threshold at the start of both runs.
C6_SecondRunChangesNothingSameStaleness ==
  (SecondRunReturned /\ SameStaleness(lastScan.prev.now, lastScan.now))
    => alerts = lastScan.prev.after

\* a second run returned whose detections all met an open alert
C6_Witness ==
  /\ SecondRunReturned
  /\ SameStaleness(lastScan.prev.now, lastScan.now)
  /\ lastScan.results.alertsCreated > 0
  /\ lastScan.appended = 0
  /\ alerts # << >>

HasAlert(as, key) == \E i \in 1..Len(as) : AlertKey(as[i]) = key
HasOpenAlert(as, key) == \E i \in 1..Len(as) : AlertKey(as[i]) = key /\ IsOpen(as[i])

\* C7: when a step of a scan hands createAlert a dedup key whose alerts have
\* all left open, the step appends an open alert for the key under an id no
\* alert had, and leaves every earlier alert as it was.
C7_ReopenAfterTerminal ==
  [][\A key \in detected' :
       (HasAlert(alerts, key) /\ ~HasOpenAlert(alerts, key))
         => /\ SubSeq(alerts', 1, Len(alerts)) = alerts
            /\ \E n \in (Len(alerts) + 1)..Len(alerts') :
                 /\ AlertKey(alerts'[n]) = key
                 /\ IsOpen(alerts'[n])
                 /\ alerts'[n].id >= alertIdCounter
                 /\ \A i \in Indices : alerts[i].id # alerts'[n].id]_vars

\* the last step detected a key again whose earlier alert is acknowledged,
\* ignored or remediated, and a later open alert stands beside it
C7_Witness ==
  \E i, j \in Indices :
    /\ i < j
    /\ AlertKey(alerts[i]) = AlertKey(alerts[j])
    /\ AlertKey(alerts[j]) \in detected
    /\ ~IsOpen(alerts[i])
    /\ IsOpen(alerts[j])
    /\ alerts[i].id # alerts[j].id

\* C8: a step in which the awaited delete call fails leaves every alert as it
\* was and answers 200 {success: false, message: "Failed to delete: " +
\* the error's text}; the process goes on.
C8_FailedDeleteLeavesAlert ==
  [][failedCall'.what = "deleteRow"
       => /\ alerts' = alerts
          /\ response' = [code |-> 200, success |-> FALSE,
                          message |-> <<"Failed to delete: ", failedCall'.error>>,
                          body |-> << >>]
          /\ phase' = phase]_vars

\* a delete call on an open row alert failed
C8_Witness ==
  /\ failedCall.what = "deleteRow"
  /\ ~response.success
  /\ \E i \in Indices : alerts[i].resourceType = "row" /\ IsOpen(alerts[i])

\* C9: a delete remediation on an alert with resourceType document answers
\* success = false, starts no delete call and changes no alert; and no
\* awaited delete call is ever for an alert that is not a row alert.
C9_DeleteOnDocumentRefused ==
  [][/\ \A id \in RequestIds :
          (/\ Remediate(id, "delete")
           /\ FindById(id) # 0
           /\ alerts[FindById(id)].resourceType = "document")
            => /\ response'.code = 200
               /\ ~response'.success
               /\ deleteCalls' = deleteCalls
               /\ alerts' = alerts
     /\ \A k \in 1..Len(deleteCalls') :
          alerts'[deleteCalls'[k].alert].resourceType = "row"]_vars

\* a delete on a document alert was refused
C9_Witness ==
  /\ response.message = <<"Delete action only supported for table rows">>
  /\ \E i \in Indices : alerts[i].resourceType = "document"

\* the delete call of the oldest-first list that ended in this step
EndedCall(k) ==
  /\ k \in 1..Len(deleteCalls)
  /\ deleteCalls' = Remove(deleteCalls, k)

\* C10: a delete remediation on an open row alert starts exactly one delete
\* call, with the alert's docId, metadata.tableId and resourceId, and
\* changes no alert yet; no other step starts a call; when the call
\* succeeds the alert becomes remediated with updatedAt = now and the answer
\* is success = true; and an alert becomes remediated only in such a step or
\* by a status-set request.
C10_DeleteCallsOnceThenRemediates ==
  [][/\ \A id \in RequestIds :
          (/\ Remediate(id, "delete")
           /\ FindById(id) # 0
           /\ alerts[FindById(id)].resourceType = "row"
           /\ IsOpen(alerts[FindById(id)]))
            => /\ deleteCalls' = Append(deleteCalls,
                    [alert |-> FindById(id),
                     docId |-> alerts[FindById(id)].docId,
                     tableId |-> alerts[FindById(id)].metadata.tableId,
                     rowId |-> alerts[FindById(id)].resourceId])
               /\ alerts' = alerts
               /\ response' = NoResponse
     /\ Len(deleteCalls') > Len(deleteCalls)
          => /\ Len(deleteCalls') = Len(deleteCalls) + 1
             /\ \E id \in RequestIds : Remediate(id, "delete")
     /\ \A k \in 1..Len(deleteCalls) :
          (EndedCall(k) /\ failedCall'.what # "deleteRow")
            => /\ alerts'[deleteCalls[k].alert].status = ALERT_STATUS.REMEDIATED
               /\ alerts'[deleteCalls[k].alert].updatedAt = clock
               /\ response'.code = 200
               /\ response'.success
     /\ \A i \in Indices :
          (alerts'[i].status = ALERT_STATUS.REMEDIATED
             /\ alerts[i].status # ALERT_STATUS.REMEDIATED)
            => \/ \E k \in 1..Len(deleteCalls) :
                    /\ EndedCall(k)
                    /\ deleteCalls[k].alert = i
                    /\ failedCall'.what # "deleteRow"
               \/ \E id \in RequestIds :
                    PatchStatus(id, ALERT_STATUS.REMEDIATED)]_vars

\* a delete call succeeded and its row alert is remediated
C10_Witness ==
  /\ response.message = <<"Row deleted successfully">>
  /\ \E i \in Indices :
       /\ alerts[i].resourceType = "row"
       /\ alerts[i].status = ALERT_STATUS.REMEDIATED
       /\ alerts[i].updatedAt = clock

\* the result of the acknowledge and of the ignore case
AcknowledgeTarget(action) ==
  IF action = "acknowledge" THEN ALERT_STATUS.ACKNOWLEDGED ELSE ALERT_STATUS.IGNORED
AcknowledgeMessage(action) ==
  IF action = "acknowledge" THEN <<"Alert acknowledged">> ELSE <<"Alert ignored">>

\* C11: an acknowledge (ignore) remediation on an existing open alert answers
\* 200 {success: true}, sets that alert's status to acknowledged (ignored)
\* and its updatedAt to now, changes nothing else in the store and starts no
\* call to the Coda API.
C11_AcknowledgeIgnoreSucceed ==
  [][\A id \in RequestIds, action \in {"acknowledge", "ignore"} :
       (/\ Remediate(id, action)
        /\ FindById(id) # 0
        /\ IsOpen(alerts[FindById(id)]))
         => /\ response' = [code |-> 200, success |-> TRUE,
                            message |-> AcknowledgeMessage(action), body |-> << >>]
            /\ alerts' = [alerts EXCEPT
                            ![FindById(id)].status = AcknowledgeTarget(action),
                            ![FindById(id)].updatedAt = clock]
            /\ deleteCalls' = deleteCalls
            /\ \A r \in Runs : scan'[r].pc = scan[r].pc]_vars

\* an alert created at an earlier time was acknowledged or ignored just now
C11_Witness ==
  /\ response.message \in {<<"Alert acknowledged">>, <<"Alert ignored">>}
  /\ response.success
  /\ \E i \in Indices :
       /\ alerts[i].status \in {ALERT_STATUS.ACKNOWLEDGED, ALERT_STATUS.IGNORED}
       /\ alerts[i].updatedAt = clock
       /\ alerts[i].createdAt < clock

\* C12: a remediation on an existing alert with an action outside delete,
\* acknowledge and ignore answers 200 {success: false} with the
\* invalid-action message, starts no call to the Coda API and changes no
\* alert.
C12_UnknownActionRefused ==
  [][\A id \in RequestIds,
        action \in RequestActions \ {"delete", "acknowledge", "ignore"} :
       (Remediate(id, action) /\ FindById(id) # 0)
         => /\ response' = [code |-> 200, success |-> FALSE,
                            message |-> <<"Invalid action. Use: delete, acknowledge, or ignore">>,
                            body |-> << >>]
            /\ alerts' = alerts
            /\ deleteCalls' = deleteCalls]_vars

\* an unknown action on an alert in the store was refused
C12_Witness ==
  /\ response.message = <<"Invalid action. Use: delete, acknowledge, or ignore">>
  /\ ~response.success
  /\ alerts # << >>

\* C13: a status-set request answers 404 when no alert has the id and 400
\* when the status is not one of ALERT_STATUS, changing no alert in either
\* case; otherwise it writes status and updatedAt = now of the addressed
\* alert, changes nothing else and answers with that alert.
C13_SetStatusErrors ==
  [][\A id \in RequestIds, status \in RequestStatuses :
       PatchStatus(id, status)
         => IF \A i \in Indices : alerts[i].id # id
            THEN response'.code = 404 /\ ~response'.success /\ alerts' = alerts
            ELSE IF status \notin {"open", "acknowledged", "remediated", "ignored"}
            THEN response'.code = 400 /\ ~response'.success /\ alerts' = alerts
            ELSE \E i \in Indices :
                   /\ alerts[i].id = id
                   /\ alerts' = [alerts EXCEPT ![i].status = status,
                                               ![i].updatedAt = clock]
                   /\ response'.code = 200
                   /\ response'.body = <<alerts'[i]>>]_vars

\* a status outside ALERT_STATUS was refused for an alert in the store
C13_Witness ==
  /\ response.code = 400
  /\ response.message = <<"Invalid status">>
  /\ alerts # << >>

\* the answer of the last step, by endpoint
IsDataReply ==
  response.code = 200 /\ response.body # << >> /\ "mode" \in DOMAIN response.body[1]
IsPageReply ==
  response.code = 200 /\ response.body # << >> /\ "items" \in DOMAIN response.body[1]
IsStatsReply ==
  response.code = 200 /\ response.body # << >> /\ "byStatus" \in DOMAIN response.body[1]

\* non-increasing severity rank and, within a rank, non-increasing createdAt
Ordered(list) ==
  \A i \in 1..(Len(list) - 1) :
    \/ severityOrder(list[i].severity) > severityOrder(list[i + 1].severity)
    \/ /\ severityOrder(list[i].severity) = severityOrder(list[i + 1].severity)
       /\ list[i].createdAt >= list[i + 1].createdAt

\* list holds every alert of the store once, whatever its status
IsPermutationOfStore(list) ==
  /\ Len(list) = Len(alerts)
  /\ {list[i] : i \in 1..Len(list)} = {alerts[i] : i \in Indices}

\* the ordered arrangements of the whole store
SortedPermutations ==
  {list \in {[i \in Indices |-> alerts[q[i]]] :
               q \in {r \in [Indices -> Indices] :
                        \A i, j \in Indices : i # j => r[i] # r[j]}} :
     Ordered(list)}

\* C14 as claimed: the list a listing endpoint returns is a permutation of
\* all alerts in non-increasing severity rank and, within a rank,
\* non-increasing createdAt.
C14_ListIsSortedPermutation ==
  /\ IsDataReply => response.body[1].alerts \in SortedPermutations
  /\ IsPageReply => response.body[1].items \in SortedPermutations

\* C14 as amended: GET /api/data returns such a permutation of all alerts;
\* GET /api/alerts returns the elements [(page - 1) * limit,
\* (page - 1) * limit + limit) of such a permutation, with total = the
\* number of alerts.
C14_ListIsPageOfSortedPermutation ==
  /\ IsDataReply =>
       /\ IsPermutationOfStore(response.body[1].alerts)
       /\ Ordered(response.body[1].alerts)
  /\ IsPageReply =>
       LET pg == response.body[1].pagination
       IN  /\ pg.total = Len(alerts)
           /\ \E list \in SortedPermutations :
                response.body[1].items =
                  JsSlice(list, (pg.page - 1) * pg.limit,
                          (pg.page - 1) * pg.limit + pg.limit)

\* a page of two out of three alerts in which a tie in severity is broken
\* against the order of the store
C14_Witness ==
  /\ IsPageReply
  /\ Len(alerts) = 3
  /\ Len(response.body[1].items) = 2
  /\ response.body[1].items[1].severity = response.body[1].items[2].severity
  /\ response.body[1].items[1].createdAt > response.body[1].items[2].createdAt
  /\ response.body[1].items[1].id > response.body[1].items[2].id

RECURSIVE SumOf(_)
SumOf(m) ==
  IF DOMAIN m = {} THEN 0
  ELSE LET v == CHOOSE w \in DOMAIN m : TRUE
       IN  m[v] + SumOf([w \in DOMAIN m \ {v} |-> m[w]])

\* m counts, for each value of the field some alert carries, the alerts
\* that carry it, and the counts add up to the number of alerts
CountsStore(m, field) ==
  /\ DOMAIN m = {alerts[i][field] : i \in Indices}
  /\ \A v \in DOMAIN m : m[v] = Cardinality({i \in Indices : alerts[i][field] = v})
  /\ SumOf(m) = Len(alerts)

StatsOfStore(stats) ==
  /\ stats.total = Len(alerts)
  /\ CountsStore(stats.byStatus, "status")
  /\ CountsStore(stats.byType, "type")
  /\ CountsStore(stats.bySeverity, "severity")

\* C15: the statistics GET /api/alerts/stats and GET /api/data return have
\* total = the number of alerts of any status, and byStatus, byType and
\* bySeverity hold for each value the number of alerts carrying it, each
\* mapping adding up to total.
C15_StatsCountAllAlerts ==
  /\ IsStatsReply => StatsOfStore(response.body[1])
  /\ IsDataReply => StatsOfStore(response.body[1].stats)

\* statistics over three alerts of which some but not all are open
C15_Witness ==
  /\ IsStatsReply
  /\ response.body[1].total = 3
  /\ DOMAIN response.body[1].byStatus = {ALERT_STATUS.OPEN, ALERT_STATUS.REMEDIATED}
  /\ response.body[1].byStatus[ALERT_STATUS.REMEDIATED] = 2
  /\ Cardinality(DOMAIN response.body[1].bySeverity) > 1

\* the store holds an alert of the type for the document, with the given
\* severity and resourceType document
HasDocumentAlert(doc, type, severity) ==
  \E i \in Indices :
    /\ alerts[i].type = type
    /\ alerts[i].docId = doc.id
    /\ alerts[i].resourceId = doc.id
    /\ alerts[i].severity = severity
    /\ alerts[i].resourceType = "document"

\* C16: after a scan over an empty store (the start-up scan), a document
\* has an unused_document alert (low, document) exactly when the time since
\* its updatedAt strictly exceeds ten minutes, and a public_document alert
\* (high, document) exactly when it is published.
C16_StaleOnlyBeyondThreshold ==
  (lastScan.pc = "returned" /\ lastScan.caller = "startup")
    => \A k \in 1..Len(coda) :
         /\ HasDocumentAlert(coda[k].doc, ALERT_TYPES.UNUSED_DOCUMENT, "low")
              <=> (lastScan.now - coda[k].doc.updatedAt > TEN_MINUTES_MS)
         /\ HasDocumentAlert(coda[k].doc, ALERT_TYPES.PUBLIC_DOCUMENT, "high")
              <=> coda[k].doc.published

\* C17: after a scan failed because the document listing failed, the start-up
\* scan included, the scheduler is active and the service accepts requests.
C17_FatalFailureKeepsScheduler ==
  failedCall.what = "documents" => phase = "serving"

\* C18: until the initial scan has returned, no request is answered, no
\* delete call is pending, and no run is started by the scheduler or by
\* POST /api/scan; the service starts in the step in which the initial scan
\* returns.
C18_InitialScanBeforeRequests ==
  [][phase = "starting"
       => /\ response' = NoResponse
          /\ reqCounter' = 0
          /\ deleteCalls' = << >>
          /\ scansStarted' = 0
          /\ \A r \in Runs : scan'[r].caller \notin {"cron", "manual"}
          /\ alerts' # alerts
               => \E r \in Runs : scan[r].caller = "startup" /\ scan'[r] # scan[r]
          /\ phase' = "serving"
               => lastScan'.pc = "returned" /\ lastScan'.caller = "startup"]_vars

\* the initial scan is suspended at a fetch with alerts in the store and
\* time has passed since the process started
C18_Witness ==
  /\ phase = "starting"
  /\ \E r \in Runs : /\ scan[r].caller = "startup"
                      /\ scan[r].pc \in {"fetchTables", "fetchRows"}
  /\ alerts # << >>
  /\ clock > StartClock

\* a run of the scheduler or of POST /api/scan is suspended at a fetch
ScanSuspended ==
  /\ phase = "serving"
  /\ \E r \in Runs : /\ scan[r].caller \in {"cron", "manual"}
                      /\ scan[r].pc \in {"fetchDocs", "fetchTables", "fetchRows"}

\* a run goes on in this step
ScanStep ==
  \E r \in Runs :
    /\ Active(r)
    /\ \/ scan'[r].pc # scan[r].pc
       \/ scan'[r].di # scan[r].di
       \/ scan'[r].ti # scan[r].ti

\* a request is answered, or taken up to its delete call, in this step
RequestHandled ==
  \/ reqCounter' # reqCounter
  \/ (response'.code # 0 /\ lastScan'.pc = "idle")

\* the awaited fetch of a run fails in this step; every awaited fetch can,
\* so every state with a suspended run has such a step (one error message
\* is enough where the message is kept)
FetchFails ==
  /\ failedCall'.caller \in Callers
  /\ failedCall'.error \in {"none", "timeout of 0ms exceeded"}

\* C19: while a scheduled or manual run is suspended at a fetch, the read,
\* status-set and remediation requests can be handled up to the moment the
\* fetch settles; a request handled meanwhile is answered (or taken up to
\* its delete call) and leaves the run where it is suspended; and whenever
\* a run goes on it keeps every alert as the requests left it and only
\* appends.
C19_RequestsServedDuringScan ==
  [][/\ (ScanSuspended /\ FetchFails)
          => /\ ENABLED GetData
             /\ ENABLED GetStats
             /\ \A id \in RequestIds :
                  /\ ENABLED GetAlert(id)
                  /\ reqCounter < MaxRequests
                       => /\ ENABLED PatchStatus(id, ALERT_STATUS.ACKNOWLEDGED)
                          /\ ENABLED Remediate(id, "delete")
     /\ (ScanSuspended /\ RequestHandled)
          => /\ ~ScanStep
             /\ response'.code # 0 \/ Len(deleteCalls') > Len(deleteCalls)
     /\ ScanStep => SubSeq(alerts', 1, Len(alerts)) = alerts]_vars

\* a run of the scheduler or of POST /api/scan returned after a request
\* wrote a status while it was suspended
C19_Witness ==
  /\ lastScan.pc = "returned"
  /\ lastScan.caller \in {"cron", "manual"}
  /\ ~lastScan.quiet
  /\ lastScan.results.alertsCreated > 0
  /\ \E i \in Indices : ~IsOpen(alerts[i]) /\ alerts[i].updatedAt >= lastScan.now

\* C20: ids strictly increase along the store in creation order and lie
\* below alertIdCounter; a step removes no alert, changes no id, gives a new
\* alert an id no alert had, and never lowers alertIdCounter; GET
\* /api/alerts/:id answers with the alert of that id, whatever its status.
C20_IdsUniqueAlertsKept ==
  [][/\ \A i, j \in Indices : i < j => alerts[i].id < alerts[j].id
     /\ \A i \in Indices : alerts[i].id < alertIdCounter
     /\ Len(alerts') >= Len(alerts)
     /\ \A i \in Indices : alerts'[i].id = alerts[i].id
     /\ \A n \in (Len(alerts) + 1)..Len(alerts') :
          /\ alerts'[n].id >= alertIdCounter
          /\ alerts'[n].id < alertIdCounter'
          /\ \A i \in 1..(n - 1) : alerts'[i].id < alerts'[n].id
     /\ alertIdCounter' >= alertIdCounter
     /\ \A id \in RequestIds :
          (/\ response'.code # 0
           /\ reqCounter' = reqCounter
           /\ \E i \in Indices : alerts[i].id = id
           /\ GetAlert(id))
            => /\ response'.code = 200
               /\ \E i \in Indices : alerts[i].id = id /\ response'.body = <<alerts[i]>>]_vars

\* GET /api/alerts/:id answered with an alert remediated at an earlier
\* time, in a store to which a later run has appended
C20_Witness ==
  /\ response.code = 200
  /\ response.body # << >>
  /\ "resourceType" \in DOMAIN response.body[1]
  /\ response.body[1].status = ALERT_STATUS.REMEDIATED
  /\ response.body[1].updatedAt < clock
  /\ \E i \in Indices : alerts[i].id > response.body[1].id

\* C21: no step (scan, remediation, status-set) changes the id, type,
\* severity, docId, resourceId, resourceType, metadata or createdAt of an
\* alert already in the store; a step that changes an alert's status sets
\* its updatedAt to the time of the step, and updatedAt never decreases.
C21_IdentityFieldsFrozen ==
  [][\A i \in Indices :
       /\ i <= Len(alerts')
       /\ alerts'[i].id = alerts[i].id
       /\ alerts'[i].type = alerts[i].type
       /\ alerts'[i].severity = alerts[i].severity
       /\ alerts'[i].docId = alerts[i].docId
       /\ alerts'[i].resourceId = alerts[i].resourceId
       /\ alerts'[i].resourceType = alerts[i].resourceType
       /\ alerts'[i].metadata = alerts[i].metadata
       /\ alerts'[i].createdAt = alerts[i].createdAt
       /\ (alerts'[i].status # alerts[i].status => alerts'[i].updatedAt = clock)
       /\ alerts'[i].updatedAt >= alerts[i].updatedAt]_vars

\* an alert created by a scan had its status written at a later time
C21_Witness ==
  /\ response.code = 200
  /\ \E i \in Indices :
       /\ alerts[i].status # ALERT_STATUS.OPEN
       /\ alerts[i].updatedAt = clock
       /\ alerts[i].updatedAt > alerts[i].createdAt

\* the rows of a source, each with its document and its table
SourceRows(src) ==
  UNION { UNION { { <<src[d].doc, src[d].tables[k].table, src[d].tables[k].rows[r]>> :
                      r \in 1..Len(src[d].tables[k].rows) } :
                  k \in 1..Len(src[d].tables) } :
          d \in 1..Len(src) }

\* C24: when a scan step hands the findings of a row to createAlert, the
\* alerts already stored stay as they are, the step adds no alert for the
\* row if an open one exists and exactly one otherwise, and the added alert
\* is the one built from the row's first finding in column order, then
\* detector registration order, whatever the severity of the later ones.
C24_FirstFindingOfRowWins ==
  [][\A key \in detected' :
       key[1] = ALERT_TYPES.SENSITIVE_DATA_TABLE =>
         LET new == {i \in (Len(alerts) + 1)..Len(alerts') : AlertKey(alerts'[i]) = key}
             hadOpen == \E i \in Indices :
                          IsOpen(alerts[i]) /\ AlertKey(alerts[i]) = key
         IN  /\ Len(alerts') >= Len(alerts)
             /\ SubSeq(alerts', 1, Len(alerts)) = alerts
             /\ Cardinality(new) = IF hadOpen THEN 0 ELSE 1
             /\ \A i \in new :
                  \E s \in SourceRows(coda) :
                    /\ s[1].id = key[2]
                    /\ s[3].id = key[3]
                    /\ alerts'[i].createdAt \in clock..alerts'[i].updatedAt
                    /\ alerts'[i].updatedAt <= clock'
                    /\ alerts'[i] = NewAlert(alerts'[i].id,
                                             RowDrafts(s[1], s[2], s[3])[1],
                                             alerts'[i].createdAt,
                                             alerts'[i].updatedAt)]_vars

\* a scan has just handed three findings of row r1 to createAlert, the last
\* one critical, and the one open alert of the row is the high one of the
\* first finding
C24_Witness ==
  \E key \in detected :
    /\ key[1] = ALERT_TYPES.SENSITIVE_DATA_TABLE
    /\ \E s \in SourceRows(coda) :
         LET drafts == RowDrafts(s[1], s[2], s[3])
         IN  /\ s[1].id = key[2]
             /\ s[3].id = key[3]
             /\ Len(drafts) = 3
             /\ drafts[1].severity = "high"
             /\ drafts[3].severity = "critical"
             /\ Cardinality({i \in Indices : AlertKey(alerts[i]) = key}) = 1
             /\ \E i \in Indices :
                  /\ AlertKey(alerts[i]) = key
                  /\ IsOpen(alerts[i])
                  /\ alerts[i].severity = "high"
                  /\ alerts[i].metadata = drafts[1].metadata

\* C22: a step in which the row listing of a table fails (live mode) adds
\* no row alert and no alert of the table's document, counts no
\* createAlert call but those of the next document's own rules, adds
\* nothing to the errors of the run's result, and
\* leaves the run at the row listing of the document's next table, or,
\* after the last table, at the table listing of the next document, or,
\* after the last document, returned.
C22_FailedRowListingIsEmptyTable ==
  [][failedCall'.what = "rows" =>
       LET r == failedCall'.run
           L == scan[r]
           R == IF scan'[r].pc = "idle" THEN lastScan' ELSE scan'[r]
       IN  /\ ~useDummyData
           /\ Len(alerts') >= Len(alerts)
           /\ SubSeq(alerts', 1, Len(alerts)) = alerts
           /\ \A i \in (Len(alerts) + 1)..Len(alerts') :
                /\ alerts'[i].resourceType = "document"
                /\ alerts'[i].docId # L.docs[L.di].id
           /\ R.results.errors = L.results.errors
           /\ R.results.alertsCreated - L.results.alertsCreated
                = IF L.ti = Len(L.tables) /\ L.di < Len(L.docs)
                  THEN Len(DocDrafts(L.docs[L.di + 1], L.now))
                  ELSE 0
           /\ IF L.ti < Len(L.tables)
              THEN /\ R.pc = "fetchRows"
                   /\ R.di = L.di
                   /\ R.ti = L.ti + 1
                   /\ alerts' = alerts
              ELSE IF L.di < Len(L.docs)
              THEN /\ R.pc = "fetchTables"
                   /\ R.di = L.di + 1
                   /\ R.results.documentsScanned = L.results.documentsScanned + 1
              ELSE R.pc = "returned"]_vars

\* a run whose row listing of t1 failed has returned without errors after
\* both documents: row r2 of the next table has its alert, row r1 has none
C22_Witness ==
  /\ lastScan.pc = "returned"
  /\ lastScan.fails = {<<"rows", "t1">>}
  /\ lastScan.results.errors = << >>
  /\ lastScan.results.documentsScanned = 2
  /\ \E i \in Indices : alerts[i].resourceId = "r2"
  /\ \A i \in Indices : alerts[i].resourceId # "r1"

\* the dedup keys of the drafts one complete run entered at time t hands to
\* createAlert
SingleRunKeys(src, t) ==
  UNION { {DraftKey(DocDrafts(src[d].doc, t)[i]) :
             i \in 1..Len(DocDrafts(src[d].doc, t))} : d \in 1..Len(src) }
  \cup UNION { {DraftKey(RowDrafts(s[1], s[2], s[3])[i]) :
                  i \in 1..Len(RowDrafts(s[1], s[2], s[3]))} : s \in SourceRows(src) }

OpenKeys == {AlertKey(alerts[i]) : i \in {j \in Indices : IsOpen(alerts[j])}}

\* C25: with scheduled and manual runs interleaving at their fetches over
\* an unchanged source, no dedup key has two open alerts, no id is held by
\* two alerts, every open alert has a key a single run entered now would
\* create, the retained snapshot is the list a run fetched (or still
\* empty), and when a run that overlapped another returns without a failed
\* fetch, every key a single run entered at its time creates is open.
C25_OverlappingRunsAsOne ==
  /\ \A i, j \in Indices :
       i # j => /\ alerts[i].id # alerts[j].id
                /\ ~(/\ IsOpen(alerts[i])
                      /\ IsOpen(alerts[j])
                      /\ AlertKey(alerts[i]) = AlertKey(alerts[j]))
  /\ OpenKeys \subseteq SingleRunKeys(coda, clock)
  /\ documents \in {<< >>, CodaDocs(coda)}
  /\ (/\ lastScan.pc = "returned"
      /\ ~lastScan.quiet
      /\ lastScan.fails = {})
       => SingleRunKeys(coda, lastScan.now) \subseteq OpenKeys

\* the manual run has returned without a failed fetch while the scheduled
\* run, entered before that, waits for its last listing: each of the two
\* appended alerts, and the store holds one open alert per key of a single
\* run
C25_Witness ==
  /\ lastScan.pc = "returned"
  /\ lastScan.caller = "manual"
  /\ ~lastScan.quiet
  /\ lastScan.fails = {}
  /\ lastScan.appended > 0
  /\ \E r \in Runs :
       /\ scan[r].caller = "cron"
       /\ scan[r].pc = "fetchTables"
       /\ scan[r].di = Len(scan[r].docs)
       /\ scan[r].fails = {}
       /\ scan[r].appended > 0
  /\ documents = CodaDocs(coda)
  /\ Len(alerts) = Cardinality(SingleRunKeys(coda, clock))
  /\ OpenKeys = SingleRunKeys(coda, clock)

\* the matches of detector `type` in a text, in text order
RawMatches(text, type) ==
  LET OfType(seg) == seg.type = type
  IN  SelectSeq(text, OfType)

\* first 4 characters, the mask token, last 2 characters
Masked(raw) ==
  SubSeq(raw, 1, Min(4, Len(raw))) \o <<"*", "*", "*", "*">>
    \o SubSeq(raw, Max(Len(raw) - 1, 1), Len(raw))

\* a match the mask leaves as it is: ten characters, the fifth to the
\* eighth being the mask token
AlreadyMasked(raw) ==
  Len(raw) = 10 /\ SubSeq(raw, 5, 8) = <<"*", "*", "*", "*">>

\* C23 as stated: every sample is first 4 + "****" + last 2 of its match,
\* a sample of a match of 6 or more characters always differs from the
\* match, at most the first two matches are samples and count is the number
\* of matches.
C23_SampleNeverRaw ==
  response.code = 200 =>
    \A k \in 1..Len(response.body) :
      LET f == response.body[k]
          raw == RawMatches(CellText, f.type)
      IN  /\ f.count = Len(raw)
          /\ Len(f.samples) = Min(2, Len(raw))
          /\ \A i \in 1..Len(f.samples) :
               /\ f.samples[i] = Masked(raw[i].m)
               /\ Len(raw[i].m) >= 6 => f.samples[i] # raw[i].m

\* C23: every sample is first 4 + "****" + last 2 of its match; a sample of
\* a match of 6 or more characters differs from the match unless the match
\* has ten characters with the mask token as its fifth to eighth, and then
\* equals it; at most the first two matches are samples and count is the
\* number of matches.
C23_SampleIsMaskedMatch ==
  response.code = 200 =>
    \A k \in 1..Len(response.body) :
      LET f == response.body[k]
          raw == RawMatches(CellText, f.type)
      IN  /\ f.count = Len(raw)
          /\ Len(f.samples) = Min(2, Len(raw))
          /\ \A i \in 1..Len(f.samples) :
               /\ f.samples[i] = Masked(raw[i].m)
               /\ Len(raw[i].m) >= 6 =>
                    (f.samples[i] = raw[i].m <=> AlreadyMasked(raw[i].m))

\* a finding with three matches carries two samples: the first match is
\* "pwd=****aa" and its sample equals it, the second is "pwd=aaa" and its
\* sample differs from it
C23_Witness ==
  /\ response.code = 200
  /\ \E k \in 1..Len(response.body) :
       LET f == response.body[k]
           raw == RawMatches(CellText, f.type)
       IN  /\ f.count = 3
           /\ Len(f.samples) = 2
           /\ AlreadyMasked(raw[1].m)
           /\ f.samples[1] = raw[1].m
           /\ Len(raw[2].m) >= 6
           /\ f.samples[2] # raw[2].m

====
